---- MODULE Spec2Model ----
(***************************************************************************)
(* Model of simulator.py: the Barnsley fern (weighted IFS), the Koch curve *)
(* (recursive subdivision) and the Sierpinski triangle (midpoint sampler), *)
(* each followed by its progressive animation.                             *)
(*                                                                         *)
(* Numbers.  The script computes in IEEE doubles.  The model computes the  *)
(* same expressions exactly, on integers that carry a denominator:         *)
(*   - probabilities and fern coefficients are hundredths (Scale);         *)
(*   - fern points are in units of 1/BUnit, Sierpinski points in units of  *)
(*     1/SUnit, chosen so that every stored point is an integer;           *)
(*   - Koch points are <<a, b, c, d>>, meaning x = a + b*sqrt(3) and       *)
(*     y = c + d*sqrt(3); inputs on a grid of 6^depth divide exactly.      *)
(* Rounding of doubles is not modelled.                                    *)
(***************************************************************************)
EXTENDS Integers, Sequences, FiniteSets, TLC

VARIABLES
    pc,              \* position of the script / of the call under study
    raised,          \* the exception that ended it, "none" if none
    transformations, \* the module-level transform table (lines 25-50)
    r,               \* choose_transformation: the draw random.random()
    trans,           \* the transform choose_transformation returned
    num_points,      \* animate_barnsley locals
    points,
    current_point,
    bi,
    bhist,           \* history: the transform stored at each index
    bwrites,         \* history: number of stores into each index of points
    bframe,
    bmax_index,
    p1,              \* koch_curve_points / animate_koch
    p2,
    depth,
    curve,
    frames,          \* deepest call level koch_curve_points reached
    all_levels,
    kframe,
    line,
    total_points,    \* animate_sierpinski locals
    points_sier,
    current,
    chosen,
    si,
    swrites,         \* history: number of stores into each index
    sframe,
    smax_index

vars == <<pc, raised, transformations, r, trans, num_points, points,
          current_point, bi, bhist, bwrites, bframe, bmax_index, p1, p2,
          depth, curve, frames, all_levels, kframe, line, total_points,
          points_sier, current, chosen, si, swrites, sframe, smax_index>>

barnsleyVars == <<num_points, points, current_point, bi, bhist, bwrites,
                  bframe, bmax_index>>
kochVars == <<p1, p2, depth, curve, frames, all_levels, kframe, line>>
sierVars == <<total_points, points_sier, current, chosen, si, swrites,
              sframe, smax_index>>

----------------------------------------------------------------------------
(* Bounds of the model *)

MaxPoints == 3        \* largest point count the fern sampler is asked for
MaxSierPoints == 5    \* largest point count the midpoint sampler is asked for
MaxDepth == 3         \* largest depth koch_curve_points is called with
RecursionLimit == 8   \* the interpreter's call-depth limit

(* Program constants *)

max_depth == 5
BarnsleyTotalFrames == 200
BarnsleyFrames == 500
SierTotalFrames == 100
SierFrames == 100

Scale == 10 * 10      \* two decimals: weights and coefficients in hundredths

RECURSIVE Pow(_, _)
Pow(b, e) == IF e <= 0 THEN 1 ELSE b * Pow(b, e - 1)

Max(a, b) == IF a >= b THEN a ELSE b
Min(a, b) == IF a <= b THEN a ELSE b

----------------------------------------------------------------------------
(* Koch curve: arithmetic on points a + b*sqrt(3), c + d*sqrt(3) *)

Add(p, q) == <<p[1] + q[1], p[2] + q[2], p[3] + q[3], p[4] + q[4]>>
Sub(p, q) == <<p[1] - q[1], p[2] - q[2], p[3] - q[3], p[4] - q[4]>>
Times(n, p) == <<n * p[1], n * p[2], n * p[3], n * p[4]>>
DivBy(p, n) == <<p[1] \div n, p[2] \div n, p[3] \div n, p[4] \div n>>

\* rot.dot(v) with rot = [[0.5, -sqrt(3)/2], [sqrt(3)/2, 0.5]]:
\*   x' = x/2 - (sqrt(3)/2) y,  y' = (sqrt(3)/2) x + y/2
Rot60Neg(v) ==
    <<(v[1] + 3 * v[4]) \div 2, (v[2] + v[3]) \div 2,
      (v[3] - 3 * v[2]) \div 2, (v[4] - v[1]) \div 2>>

Rot60(v) ==
    <<(v[1] - 3 * v[4]) \div 2, (v[2] - v[3]) \div 2,
      (3 * v[2] + v[3]) \div 2, (v[1] + v[4]) \div 2>>

KeepAll(s) == s
DropFirst(s) == SubSeq(s, 2, Len(s))

\* s[:-1]
DropLast(s) == SubSeq(s, 1, Len(s) - 1)

RecursionError == [err |-> TRUE, pts |-> <<>>, frames |-> RecursionLimit]

\* koch_curve_points(p1, p2, depth), entered at call level `level`.  The
\* result is [err, pts, frames]: err when the recursion ran past the
\* interpreter's limit, pts the returned list, frames the deepest level.
RECURSIVE koch_curve_points(_, _, _, _)
koch_curve_points(q1, q2, d, level) ==
    IF level > RecursionLimit THEN RecursionError
    ELSE IF d = 0 THEN [err |-> FALSE, pts |-> <<q1, q2>>, frames |-> level]
    ELSE
      LET base == Sub(q2, q1)
          pA   == Add(q1, DivBy(base, 3))
          pB   == Add(q1, DivBy(Times(2, base), 3))
          peak == Add(pA, Rot60(DivBy(base, 3)))
          c1   == koch_curve_points(q1, pA, d - 1, level + 1)
          c2   == koch_curve_points(pA, peak, d - 1, level + 1)
          c3   == koch_curve_points(peak, pB, d - 1, level + 1)
          c4   == koch_curve_points(pB, q2, d - 1, level + 1)
      IN  IF c1.err THEN RecursionError
          ELSE IF c2.err THEN RecursionError
          ELSE IF c3.err THEN RecursionError
          ELSE IF c4.err THEN RecursionError
          ELSE [err |-> FALSE,
                pts |-> DropLast(c1.pts) \o DropLast(c2.pts)
                          \o DropLast(c3.pts) \o c4.pts,
                frames |-> Max(Max(c1.frames, c2.frames),
                               Max(c3.frames, c4.frames))]

----------------------------------------------------------------------------
(* Barnsley fern: the transform table and the weighted choice *)

\* The literal table, in hundredths.
Fern ==
    << [matrix |-> <<<<0, 0>>, <<0, 16>>>>,     offset |-> <<0, 0>>,
        prob |-> 1],
       [matrix |-> <<<<85, 4>>, <<-4, 85>>>>,   offset |-> <<0, 160>>,
        prob |-> 85],
       [matrix |-> <<<<20, -26>>, <<23, 22>>>>, offset |-> <<0, 160>>,
        prob |-> 7],
       [matrix |-> <<<<-15, 28>>, <<26, 24>>>>, offset |-> <<0, 44>>,
        prob |-> 7] >>

\* One unit of a fern coordinate is 1/BUnit: a point stored after k steps is
\* a multiple of Scale^(MaxPoints-1-k), so every division below is exact.
BUnit == Pow(Scale, MaxPoints - 1)

\* matrix.dot(point) + offset
ApplyNoOffset(point, t) ==
    <<t.matrix[1][1] * (point[1] \div Scale)
        + t.matrix[1][2] * (point[2] \div Scale),
      t.matrix[2][1] * (point[1] \div Scale)
        + t.matrix[2][2] * (point[2] \div Scale)>>

apply_transformation(point, t) ==
    <<t.matrix[1][1] * (point[1] \div Scale)
        + t.matrix[1][2] * (point[2] \div Scale)
        + t.offset[1] * (BUnit \div Scale),
      t.matrix[2][1] * (point[1] \div Scale)
        + t.matrix[2][2] * (point[2] \div Scale)
        + t.offset[2] * (BUnit \div Scale)>>

\* the test `r <= cumulative_prob`
ReachesStrict(draw, cumulative_prob) == draw < cumulative_prob

Reaches(draw, cumulative_prob) == draw <= cumulative_prob

\* The for loop of choose_transformation from position k on.  The result is
\* the position of the dict returned; 0 when the loop falls through on an
\* empty list and transformations[-1] raises IndexError.
RECURSIVE ChooseScan(_, _, _, _)
ChooseScan(ts, draw, k, cumulative_prob) ==
    IF k > Len(ts)
    THEN Len(ts)
    ELSE IF Reaches(draw, cumulative_prob + ts[k].prob)
         THEN k
         ELSE ChooseScan(ts, draw, k + 1, cumulative_prob + ts[k].prob)

choose_transformation(ts, draw) == ChooseScan(ts, draw, 1, 0)

\* random.random() is in [0, 1): the draws, in hundredths
Draws == 0 .. (Scale - 1)

\* np.zeros((n, 2)) raises ValueError on a negative dimension
ZerosAccepts(n) == FALSE

ZerosRaises(n) == n < 0

\* a[idx] = ... raises IndexError when the array has no row idx
StoreRaises(n, idx) == idx >= n

\* np.zeros((n, 2)): rows 0 .. n-1
Zeros(n) == [j \in 0 .. (n - 1) |-> <<0, 0>>]
ZeroCounts(n) == [j \in 0 .. (n - 1) |-> 0]

\* range(1, n) visited in order: the index after j
NextIndex(j) == j + 1

\* min(total, int((frame / total_frames) * total))
MaxIndex(frame, total_frames, total) ==
    Min(total, (frame * total) \div total_frames)

----------------------------------------------------------------------------
(* Sierpinski triangle *)

\* One unit of a Sierpinski coordinate is 1/SUnit.
SUnit == Pow(2, MaxSierPoints - 1)

A == <<0, 0>>
B == <<2 * SUnit, 4 * SUnit>>
C == <<4 * SUnit, 0>>
vertices == <<A, B, C>>

\* (current + chosen) / 2.0
MidpointNoHalf(c, v) == <<c[1] + v[1], c[2] + v[2]>>

Midpoint(c, v) == <<(c[1] + v[1]) \div 2, (c[2] + v[2]) \div 2>>

----------------------------------------------------------------------------
(* Inputs *)

CountInputs == -1 .. MaxPoints
SierCountInputs == -1 .. MaxSierPoints
DepthInputs == -2 .. MaxDepth

\* Endpoints on a grid on which MaxDepth subdivisions are exact.
Grid == Pow(6, MaxDepth)
PointInputs ==
    { <<0, 0, 0, 0>>, <<Grid, 0, 0, 0>>, <<0, 0, Grid, 0>>,
      <<-Grid, 0, 2 * Grid, 0>>, <<0, Grid, Grid, 0>> }

\* The segment animate_koch draws, (-1.5, 0) to (1.5, 0), in units of
\* 3 / 6^max_depth, so that max_depth subdivisions are exact.
ProgP1 == <<-(Pow(6, max_depth) \div 2), 0, 0, 0>>
ProgP2 == <<Pow(6, max_depth) \div 2, 0, 0, 0>>

WithProbs(ws) == [k \in 1 .. Len(ws) |-> [Fern[k] EXCEPT !.prob = ws[k]]]

\* Tables handed to the sampler: the literal one, an empty one, one with a
\* zero weight, totals below and above 1.
TableInputs ==
    { Fern, <<>>, WithProbs(<<0, 100>>), WithProbs(<<50, 30>>),
      WithProbs(<<60, 60>>), WithProbs(<<1, 85, 7>>) }

----------------------------------------------------------------------------
(* States before a function is entered *)

ChooseIdle == r = 0 /\ trans = 0

BarnsleyIdle ==
    /\ num_points = 0 /\ points = <<>> /\ current_point = <<0, 0>>
    /\ bi = 0 /\ bhist = <<>> /\ bwrites = <<>> /\ bframe = 0
    /\ bmax_index = 0

KochIdle ==
    /\ p1 = <<0, 0, 0, 0>> /\ p2 = <<0, 0, 0, 0>> /\ depth = 0
    /\ curve = <<>> /\ frames = 0 /\ all_levels = <<>> /\ kframe = 0
    /\ line = <<>>

SierIdle ==
    /\ total_points = 0 /\ points_sier = <<>> /\ current = <<0, 0>>
    /\ chosen = <<0, 0>> /\ si = 0 /\ swrites = <<>> /\ sframe = 0
    /\ smax_index = 0

\* Locals are dropped when a function returns.
BarnsleyReturn ==
    /\ num_points' = 0 /\ points' = <<>> /\ current_point' = <<0, 0>>
    /\ bi' = 0 /\ bhist' = <<>> /\ bwrites' = <<>> /\ bframe' = 0
    /\ bmax_index' = 0 /\ trans' = 0

KochReturn ==
    /\ p1' = <<0, 0, 0, 0>> /\ p2' = <<0, 0, 0, 0>> /\ depth' = 0
    /\ curve' = <<>> /\ frames' = 0 /\ all_levels' = <<>> /\ kframe' = 0
    /\ line' = <<>>

----------------------------------------------------------------------------
(* animate_barnsley *)

\* num_points = ...; points = np.zeros((num_points, 2)); points[0] = (0, 0).
\* np.zeros raises ValueError on a negative dimension; the store into row 0
\* of an array without rows raises IndexError.
BarnsleyEnter ==
    /\ pc = "barnsley"
    /\ \E n \in CountInputs :
         /\ num_points' = n
         /\ IF ZerosRaises(n)
            THEN /\ pc' = "barnsley_raised" /\ raised' = "ValueError"
                 /\ UNCHANGED <<points, bwrites, bhist, bi>>
            ELSE IF StoreRaises(n, 0)
            THEN /\ pc' = "barnsley_raised" /\ raised' = "IndexError"
                 /\ points' = Zeros(0)
                 /\ UNCHANGED <<bwrites, bhist, bi>>
            ELSE /\ pc' = "barnsley_loop" /\ raised' = raised
                 /\ points' = [Zeros(n) EXCEPT ![0] = <<0, 0>>]
                 /\ bwrites' = [ZeroCounts(n) EXCEPT ![0] = 1]
                 /\ bhist' = ZeroCounts(n)
                 /\ bi' = 1
    /\ current_point' = <<0, 0>>
    /\ UNCHANGED <<transformations, r, trans, bframe, bmax_index>>
    /\ UNCHANGED <<kochVars, sierVars>>

\* One pass of `for i in range(1, num_points)`.
BarnsleyIterate ==
    /\ pc = "barnsley_loop"
    /\ bi < num_points
    /\ \E draw \in Draws :
         LET k == choose_transformation(transformations, draw)
         IN  IF k = 0
             THEN /\ pc' = "barnsley_raised" /\ raised' = "IndexError"
                  /\ UNCHANGED <<trans, current_point, points, bhist,
                                 bwrites, bi>>
             ELSE LET new_point ==
                        apply_transformation(current_point,
                                             transformations[k])
                  IN  /\ trans' = k
                      /\ current_point' = new_point
                      /\ points' = [points EXCEPT ![bi] = new_point]
                      /\ bhist' = [bhist EXCEPT ![bi] = k]
                      /\ bwrites' = [bwrites EXCEPT ![bi] = @ + 1]
                      /\ bi' = NextIndex(bi)
                      /\ UNCHANGED <<pc, raised>>
    /\ UNCHANGED <<transformations, r, num_points, bframe, bmax_index>>
    /\ UNCHANGED <<kochVars, sierVars>>

\* The loop is over; the figure is set up and init() shows no point.
BarnsleyInitDraw ==
    /\ pc = "barnsley_loop"
    /\ bi >= num_points
    /\ pc' = "barnsley_anim"
    /\ bframe' = 0
    /\ bmax_index' = 0
    /\ UNCHANGED <<raised, transformations, r, trans, num_points, points,
                   current_point, bi, bhist, bwrites>>
    /\ UNCHANGED <<kochVars, sierVars>>

\* update(frame) for frame = bframe; frames=500 gives frames 0 .. 499.
BarnsleyUpdate ==
    /\ pc = "barnsley_anim"
    /\ bframe < BarnsleyFrames
    /\ bmax_index' = MaxIndex(bframe, BarnsleyTotalFrames, num_points)
    /\ bframe' = bframe + 1
    /\ UNCHANGED <<pc, raised, transformations, r, trans, num_points, points,
                   current_point, bi, bhist, bwrites>>
    /\ UNCHANGED <<kochVars, sierVars>>

\* repeat=False: after the last frame plt.show() returns.
BarnsleyClose ==
    /\ pc = "barnsley_anim"
    /\ bframe = BarnsleyFrames
    /\ pc' = "koch"
    /\ BarnsleyReturn
    /\ UNCHANGED <<raised, transformations, r>>
    /\ UNCHANGED <<kochVars, sierVars>>

----------------------------------------------------------------------------
(* animate_koch *)

KochEnter ==
    /\ pc = "koch"
    /\ pc' = "koch_levels"
    /\ p1' = ProgP1 /\ p2' = ProgP2
    /\ depth' = 0
    /\ all_levels' = <<>>
    /\ UNCHANGED <<curve, frames, kframe, line>>
    /\ UNCHANGED <<raised, transformations, r, trans>>
    /\ UNCHANGED <<barnsleyVars, sierVars>>

\* One pass of `for depth in range(max_depth + 1)`.
KochLevel ==
    /\ pc = "koch_levels"
    /\ depth <= max_depth
    /\ LET res == koch_curve_points(p1, p2, depth, 1)
       IN  IF res.err
           THEN /\ pc' = "koch_raised" /\ raised' = "RecursionError"
                /\ UNCHANGED <<all_levels, depth, curve>>
           ELSE /\ curve' = res.pts
                /\ all_levels' = Append(all_levels, res.pts)
                /\ depth' = depth + 1
                /\ UNCHANGED <<pc, raised>>
    /\ UNCHANGED <<p1, p2, frames, kframe, line>>
    /\ UNCHANGED <<transformations, r, trans>>
    /\ UNCHANGED <<barnsleyVars, sierVars>>

KochInitDraw ==
    /\ pc = "koch_levels"
    /\ depth > max_depth
    /\ pc' = "koch_anim"
    /\ kframe' = 0
    /\ line' = <<>>
    /\ UNCHANGED <<p1, p2, depth, curve, frames, all_levels>>
    /\ UNCHANGED <<raised, transformations, r, trans>>
    /\ UNCHANGED <<barnsleyVars, sierVars>>

\* update(frame): the line shows all_levels[frame].
KochUpdate ==
    /\ pc = "koch_anim"
    /\ kframe < Len(all_levels)
    /\ line' = all_levels[kframe + 1]
    /\ kframe' = kframe + 1
    /\ UNCHANGED <<p1, p2, depth, curve, frames, all_levels>>
    /\ UNCHANGED <<pc, raised, transformations, r, trans>>
    /\ UNCHANGED <<barnsleyVars, sierVars>>

KochClose ==
    /\ pc = "koch_anim"
    /\ kframe = Len(all_levels)
    /\ pc' = "sierpinski"
    /\ KochReturn
    /\ UNCHANGED <<raised, transformations, r, trans>>
    /\ UNCHANGED <<barnsleyVars, sierVars>>

----------------------------------------------------------------------------
(* animate_sierpinski *)

\* current = A.copy(); total_points = ...; points_sier = np.zeros(...);
\* points_sier[0] = current.
SierEnter ==
    /\ pc = "sierpinski"
    /\ \E n \in SierCountInputs :
         /\ total_points' = n
         /\ IF ZerosRaises(n)
            THEN /\ pc' = "sierpinski_raised" /\ raised' = "ValueError"
                 /\ UNCHANGED <<points_sier, swrites, si>>
            ELSE IF StoreRaises(n, 0)
            THEN /\ pc' = "sierpinski_raised" /\ raised' = "IndexError"
                 /\ points_sier' = Zeros(0)
                 /\ UNCHANGED <<swrites, si>>
            ELSE /\ pc' = "sierpinski_loop" /\ raised' = raised
                 /\ points_sier' = [Zeros(n) EXCEPT ![0] = A]
                 /\ swrites' = [ZeroCounts(n) EXCEPT ![0] = 1]
                 /\ si' = 1
    /\ current' = A
    /\ UNCHANGED <<chosen, sframe, smax_index>>
    /\ UNCHANGED <<transformations, r, trans>>
    /\ UNCHANGED <<barnsleyVars, kochVars>>

\* One pass of `for i in range(1, total_points)`.
SierIterate ==
    /\ pc = "sierpinski_loop"
    /\ si < total_points
    /\ \E v \in 1 .. Len(vertices) :
         LET new_point == Midpoint(current, vertices[v])
         IN  /\ chosen' = vertices[v]
             /\ current' = new_point
             /\ points_sier' = [points_sier EXCEPT ![si] = new_point]
             /\ swrites' = [swrites EXCEPT ![si] = @ + 1]
             /\ si' = NextIndex(si)
    /\ UNCHANGED <<total_points, sframe, smax_index>>
    /\ UNCHANGED <<pc, raised, transformations, r, trans>>
    /\ UNCHANGED <<barnsleyVars, kochVars>>

SierInitDraw ==
    /\ pc = "sierpinski_loop"
    /\ si >= total_points
    /\ pc' = "sierpinski_anim"
    /\ sframe' = 0
    /\ smax_index' = 0
    /\ UNCHANGED <<total_points, points_sier, current, chosen, si, swrites>>
    /\ UNCHANGED <<raised, transformations, r, trans>>
    /\ UNCHANGED <<barnsleyVars, kochVars>>

\* update(frame) for frame = sframe; frames=100 gives frames 0 .. 99.
SierUpdate ==
    /\ pc = "sierpinski_anim"
    /\ sframe < SierFrames
    /\ smax_index' = MaxIndex(sframe, SierTotalFrames, total_points)
    /\ sframe' = sframe + 1
    /\ UNCHANGED <<total_points, points_sier, current, chosen, si, swrites>>
    /\ UNCHANGED <<pc, raised, transformations, r, trans>>
    /\ UNCHANGED <<barnsleyVars, kochVars>>

\* The last window is closed with the final frame still on display.
SierClose ==
    /\ pc = "sierpinski_anim"
    /\ sframe = SierFrames
    /\ pc' = "exit"
    /\ UNCHANGED <<raised, transformations, r, trans>>
    /\ UNCHANGED <<barnsleyVars, kochVars, sierVars>>

----------------------------------------------------------------------------
(* The script: animate_barnsley(); animate_koch(); animate_sierpinski() *)

Init ==
    /\ pc = "barnsley"
    /\ raised = "none"
    /\ transformations = Fern
    /\ ChooseIdle /\ BarnsleyIdle /\ KochIdle /\ SierIdle

Next ==
    \/ BarnsleyEnter \/ BarnsleyIterate \/ BarnsleyInitDraw
    \/ BarnsleyUpdate \/ BarnsleyClose
    \/ KochEnter \/ KochLevel \/ KochInitDraw \/ KochUpdate \/ KochClose
    \/ SierEnter \/ SierIterate \/ SierInitDraw \/ SierUpdate \/ SierClose

Spec == Init /\ [][Next]_vars

----------------------------------------------------------------------------
(* A single call koch_curve_points(p1, p2, depth) *)

InitKoch ==
    /\ pc = "call"
    /\ raised = "none"
    /\ transformations = Fern
    /\ ChooseIdle /\ BarnsleyIdle /\ SierIdle
    /\ p1 \in PointInputs /\ p2 \in PointInputs /\ depth \in DepthInputs
    /\ curve = <<>> /\ frames = 0 /\ all_levels = <<>> /\ kframe = 0
    /\ line = <<>>

KochCall ==
    /\ pc = "call"
    /\ LET res == koch_curve_points(p1, p2, depth, 1)
       IN  /\ frames' = res.frames
           /\ IF res.err
              THEN /\ pc' = "raised" /\ raised' = "RecursionError"
                   /\ curve' = curve
              ELSE /\ pc' = "returned" /\ raised' = raised
                   /\ curve' = res.pts
    /\ UNCHANGED <<p1, p2, depth, all_levels, kframe, line>>
    /\ UNCHANGED <<transformations, r, trans>>
    /\ UNCHANGED <<barnsleyVars, sierVars>>

SpecKoch == InitKoch /\ [][KochCall]_vars

----------------------------------------------------------------------------
(* A single call choose_transformation(transformations) *)

InitChoose ==
    /\ pc = "call"
    /\ raised = "none"
    /\ transformations \in TableInputs
    /\ r \in Draws
    /\ trans = 0
    /\ BarnsleyIdle /\ KochIdle /\ SierIdle

ChooseCall ==
    /\ pc = "call"
    /\ LET k == choose_transformation(transformations, r)
       IN  IF k = 0
           THEN /\ pc' = "raised" /\ raised' = "IndexError"
                /\ trans' = trans
           ELSE /\ pc' = "returned" /\ raised' = raised
                /\ trans' = k
    /\ UNCHANGED <<transformations, r>>
    /\ UNCHANGED <<barnsleyVars, kochVars, sierVars>>

SpecChoose == InitChoose /\ [][ChooseCall]_vars

----------------------------------------------------------------------------
(* The generation loop of animate_barnsley over any table *)

InitTable ==
    /\ pc = "barnsley"
    /\ raised = "none"
    /\ transformations \in TableInputs
    /\ ChooseIdle /\ BarnsleyIdle /\ KochIdle /\ SierIdle

NextTable == BarnsleyEnter \/ BarnsleyIterate \/ BarnsleyInitDraw

SpecTable == InitTable /\ [][NextTable]_vars

----------------------------------------------------------------------------
(* Properties *)

\* The exception classes of the script, read as the design's error classes:
\* ValueError is Python's error for an argument or a setting of the right
\* type and a bad value; IndexError and RecursionError are neither.
InvalidArgument == {"ValueError"}
InvalidConfiguration == {"ValueError"}

\* The 1/3 and 2/3 division points and the apex of the segment (q1, q2),
\* written out from the geometry.
ThirdPoint(q1, q2) == DivBy(Add(Times(2, q1), q2), 3)
TwoThirdsPoint(q1, q2) == DivBy(Add(q1, Times(2, q2)), 3)
Apex(q1, q2) ==
    LET m == DivBy(Add(q1, q2), 2)       \* midpoint of the segment
        v == DivBy(Sub(q2, q1), 6)       \* base / 6
    IN  \* m + (sqrt(3) * base / 6) turned by +90 degrees
        <<m[1] - 3 * v[4], m[2] - v[3], m[3] + 3 * v[2], m[4] + v[1]>>

\* C1, as the code behaves: a call with depth d >= 0 returns, and returns
\* exactly 4^d + 1 points (each level replaces a segment by four).
C1_KochLength ==
    /\ (pc # "call" /\ depth >= 0) => pc = "returned"
    /\ pc = "returned" => Len(curve) = Pow(4, depth) + 1

C1_Witness ==
    pc = "returned" /\ depth >= 2 /\ p1 # p2 /\ Len(curve) = Pow(4, depth) + 1

\* C1 as claimed: a call with depth d >= 0 returns exactly 3^d + 1 points.
C1_LengthThreePowers ==
    /\ (pc # "call" /\ depth >= 0) => pc = "returned"
    /\ pc = "returned" => Len(curve) = Pow(3, depth) + 1

\* C2: the returned list starts at p1 and ends at p2; at depth 0 it is
\* exactly [p1, p2].
C2_KochEndpoints ==
    pc = "returned" =>
        /\ Len(curve) >= 2
        /\ curve[1] = p1
        /\ curve[Len(curve)] = p2
        /\ depth = 0 => curve = <<p1, p2>>

C2_Witness ==
    pc = "returned" /\ depth >= 2 /\ p1 # p2
        /\ curve[1] = p1 /\ curve[Len(curve)] = p2

\* C9: for depth > 0 the result is the four sub-results, in the order
\* (p1,pA), (pA,peak), (peak,pB), (pB,p2), glued at their shared endpoints,
\* each shared endpoint kept once; at depth 1 it is [p1, pA, peak, pB, p2];
\* no two consecutive points are equal when p1 # p2.
C9_KochConcatenation ==
    (pc = "returned" /\ depth > 0) =>
        LET pA   == ThirdPoint(p1, p2)
            pB   == TwoThirdsPoint(p1, p2)
            peak == Apex(p1, p2)
            n    == Pow(4, depth - 1)
            sub(a, b) == koch_curve_points(a, b, depth - 1, 2).pts
        IN  /\ Len(curve) = 4 * n + 1
            /\ SubSeq(curve, 1, n + 1) = sub(p1, pA)
            /\ SubSeq(curve, n + 1, 2 * n + 1) = sub(pA, peak)
            /\ SubSeq(curve, 2 * n + 1, 3 * n + 1) = sub(peak, pB)
            /\ SubSeq(curve, 3 * n + 1, 4 * n + 1) = sub(pB, p2)
            /\ depth = 1 => curve = <<p1, pA, peak, pB, p2>>
            /\ p1 # p2 =>
                 \A j \in 1 .. (Len(curve) - 1) : curve[j] # curve[j + 1]

C9_Witness ==
    /\ pc = "returned" /\ depth >= 2 /\ p1 # p2
    /\ curve[Pow(4, depth - 1) + 1] = ThirdPoint(p1, p2)
    /\ curve[2 * Pow(4, depth - 1) + 1] = Apex(p1, p2)

\* C6: a call with a negative depth fails with an invalid-argument error at
\* the call, without recursing.
C6_NegativeDepthRejected ==
    (pc # "call" /\ depth < 0) =>
        /\ pc = "raised"
        /\ raised \in InvalidArgument
        /\ frames <= 1

\* the cumulative weight of the first k transforms
RECURSIVE Cumulative(_, _)
Cumulative(ts, k) == IF k = 0 THEN 0 ELSE Cumulative(ts, k - 1) + ts[k].prob

\* C4: on a non-empty table the call returns the first transform whose
\* cumulative weight is >= r, and the last transform when none is.
C4_ChooseFirstReaching ==
    LET ts == transformations
        reaching == {k \in 1 .. Len(ts) : Cumulative(ts, k) >= r}
    IN  /\ (pc # "call" /\ Len(ts) > 0) => pc = "returned"
        /\ pc = "returned" =>
             IF reaching # {}
             THEN trans \in reaching /\ \A k \in reaching : trans <= k
             ELSE trans = Len(ts)

C4_Witness ==
    /\ pc = "returned"
    /\ \A k \in 1 .. Len(transformations) :
         Cumulative(transformations, k) < r
    /\ trans = Len(transformations)

\* M * previous + offset, in units of 1/BUnit
AffineImage(prev, t) ==
    <<(t.matrix[1][1] * prev[1] + t.matrix[1][2] * prev[2]
         + t.offset[1] * BUnit) \div Scale,
      (t.matrix[2][1] * prev[1] + t.matrix[2][2] * prev[2]
         + t.offset[2] * BUnit) \div Scale>>

\* C3: for a count N >= 1 the loop fills N rows: row 0 is (0,0), every row
\* i in 1 .. N-1 is the transform chosen at step i applied to row i-1, each
\* row is written exactly once, and the loop ends with all N rows written.
C3_BarnsleyLoop ==
    (pc \in {"barnsley_loop", "barnsley_anim"}) =>
        /\ num_points >= 1
        /\ DOMAIN points = 0 .. (num_points - 1)
        /\ points[0] = <<0, 0>>
        /\ bi \in 1 .. num_points
        /\ \A j \in 1 .. (bi - 1) :
             /\ bhist[j] \in 1 .. Len(transformations)
             /\ points[j] = AffineImage(points[j - 1],
                                        transformations[bhist[j]])
        /\ \A j \in 0 .. (num_points - 1) :
             bwrites[j] = IF j < bi THEN 1 ELSE 0
        /\ pc = "barnsley_anim" => bi = num_points

C3_Witness ==
    /\ pc = "barnsley_anim" /\ num_points >= 3 /\ bi = num_points
    /\ bhist[1] # bhist[2]
    /\ points[2] = AffineImage(points[1], transformations[bhist[2]])

\* twice the signed area of the triangle (a, b, c)
Cross(a, b, c) ==
    (b[1] - a[1]) * (c[2] - a[2]) - (b[2] - a[2]) * (c[1] - a[1])

InTriangle(q) ==
    \/ Cross(A, B, q) >= 0 /\ Cross(B, C, q) >= 0 /\ Cross(C, A, q) >= 0
    \/ Cross(A, B, q) <= 0 /\ Cross(B, C, q) <= 0 /\ Cross(C, A, q) <= 0

\* C5: every point the midpoint sampler has stored lies inside or on the
\* triangle A, B, C.
C5_SierpinskiInHull ==
    (pc \in {"sierpinski_loop", "sierpinski_anim", "exit"}) =>
        \A j \in 0 .. (si - 1) : InTriangle(points_sier[j])

C5_Witness ==
    /\ pc = "sierpinski_loop" /\ si = total_points /\ si >= 4
    /\ points_sier[si - 1] \notin {A, B, C}
    /\ points_sier[si - 1] # points_sier[si - 2]
    /\ InTriangle(points_sier[si - 1])

BarnsleyEntered == pc \in {"barnsley_loop", "barnsley_anim", "barnsley_raised"}
SierEntered ==
    pc \in {"sierpinski_loop", "sierpinski_anim", "sierpinski_raised", "exit"}

ValidTable(ts) ==
    /\ Len(ts) > 0
    /\ \A k \in 1 .. Len(ts) : ts[k].prob > 0
    /\ Cumulative(ts, Len(ts)) = Scale

\* C8: over a table that is empty, has a weight <= 0 or does not total 1,
\* generation fails with a configuration error, and no row is ever produced
\* by a transform selected from it.
C8_InvalidTableRejected ==
    (BarnsleyEntered /\ ~ValidTable(transformations)) =>
        /\ pc # "barnsley_anim"
        /\ (pc = "barnsley_raised" /\ num_points >= 1) =>
             raised \in InvalidConfiguration
        /\ \A j \in DOMAIN bhist : bhist[j] = 0

\* C10: while frames are drawn the number of points shown never exceeds the
\* number generated and never decreases from one frame to the next, and
\* with the last frame drawn every generated point is shown.
C10_ProgressiveDisplay ==
    /\ pc = "barnsley_anim" =>
         /\ bmax_index <= num_points
         /\ \A f \in 0 .. (bframe - 2) :
              MaxIndex(f, BarnsleyTotalFrames, num_points)
                <= MaxIndex(f + 1, BarnsleyTotalFrames, num_points)
         /\ bframe = BarnsleyFrames => bmax_index = num_points
    /\ pc \in {"sierpinski_anim", "exit"} =>
         /\ smax_index <= total_points
         /\ \A f \in 0 .. (sframe - 2) :
              MaxIndex(f, SierTotalFrames, total_points)
                <= MaxIndex(f + 1, SierTotalFrames, total_points)
         /\ sframe = SierFrames => smax_index = total_points

====
